---- MODULE Spec2Model ----
(***************************************************************************)
(* Model of the lerna "hydra" core: the Maglev-style sharder               *)
(* (core/shards.rs), the client registry and its maintenance loop, the     *)
(* live-client scan and the coordinator's run (core/consumer.rs).          *)
(*                                                                         *)
(* Client ids are strings in the source; here they are naturals, whose    *)
(* order stands for the ascending string order that get_clients            *)
(* establishes.  Shard ids are the naturals 1..M.  Vec indexes             *)
(* keep the source's 0-based numbering; TLA+ sequences are 1-based, so the *)
(* element at Vec index i of a sequence s is s[i + 1].                     *)
(***************************************************************************)
EXTENDS Integers, Sequences, FiniteSets, TLC

\* ------------------------------------------------------------------ bounds
MaxClients == 2
MaxShards == 3

MaxWorkers == 1
MaxTime == 6
MaxScanTime == 17
MaxSkew == 2
MaxDeregCalls == 2
MaxBuffer == 1
MaxFleetTime == 1

ClientIds == 1..MaxClients

\* The ids a Sharder may be configured with: the ids of the client lists and
\* one more, which no client list holds.
SharderIds == 1..(MaxClients + 1)

\* The workers whose Hydra instance is modelled; the other ids are peers
\* known by their item of the clients table only.
Workers == 1..MaxWorkers

VARIABLES
    clients,       \* calculate_owned_shards: the ClientRecords argument (ids)
    shards,        \* calculate_owned_shards: the shards argument
    result,        \* per sharder client_id: what its last call gave
    shuffled,      \* the fill being stepped: its shuffled permutations
    filling,       \* the fill being stepped: lookup_table, next, assigned
    claimant,      \* the fill being stepped: the client that claims next
    now,           \* Utc::now(), in seconds
    table,         \* the clients table: per key ID its item, or NoItem
    reg_pc,        \* per worker: where maintain_client_registration_self is
    cancelled,     \* per worker: its CancellationToken
    next_tick,     \* per worker: deadline of registration_timer's next tick
    dereg_calls,   \* per worker: calls of deregister_client_self so far
    dereg_ok,      \* per worker: a deregister_client_self call returned Ok
    loop_parity,   \* per worker: parity of the maintenance loop's iterations
    run_pc,        \* per worker: where Hydra::run is
    joined,        \* per worker: tasks run has taken from its JoinSet
    live,          \* what the last get_clients call gave
    config,        \* the Config handed to Hydra::new
    new_result,    \* what Hydra::new gave: none yet, Ok, Err or panic
    probes,        \* what the three readiness probes of the last init met
    init_result,   \* what the last Hydra::init gave: none yet, Ok or Err
    kinesis_stream_arn,  \* the Hydra's stream handle
    joiner,        \* the client that joins the client list (0: none)
    churn          \* the owner changes counted over a join, or NoChurn

sharder_vars == <<clients, shards, result, shuffled, filling, claimant>>
fill_vars == <<shuffled, filling, claimant>>
registry_vars == <<table, reg_pc, cancelled, next_tick, dereg_calls, dereg_ok,
                   loop_parity>>
run_vars == <<run_pc, joined>>
startup_vars == <<config, new_result, probes, init_result, kinesis_stream_arn>>
churn_vars == <<joiner, churn>>

vars == <<clients, shards, result, shuffled, filling, claimant, now, table, reg_pc, cancelled, next_tick,
          dereg_calls, dereg_ok, loop_parity, run_pc, joined, live, config,
          new_result, probes, init_result, kinesis_stream_arn, joiner, churn>>

\* ------------------------------------------------------------ shards.rs

\* The client lists get_clients can hand over: distinct ids, ascending.
RECURSIVE SortedSeq(_)
SortedSeq(S) ==
    IF S = {} THEN <<>>
    ELSE LET lo == CHOOSE x \in S : \A y \in S : x <= y
         IN <<lo>> \o SortedSeq(S \ {lo})

ClientLists == {SortedSeq(S) : S \in SUBSET ClientIds}

ShardLists == {[i \in 1..m |-> i] : m \in 0..MaxShards}

\* One shuffled permutation of the shard indexes 0..m-1.
Perms(m) ==
    {p \in [0..(m - 1) -> 0..(m - 1)] :
        \A i, j \in 0..(m - 1) : i # j => p[i] # p[j]}

\* permutations: one permutation per client index; thread_rng can produce
\* any of them, afresh on every call.
Shuffles(n, m) == [0..(n - 1) -> Perms(m)]

\* next starting at 1 instead of 0.
InitFillFromOne(n, m) ==
    [lookup_table |-> [l \in 0..(m - 1) |-> -1],
     next         |-> [c \in 0..(n - 1) |-> 1],
     assigned     |-> 0,
     status       |-> "running"]

\* lookup_table of -1, next of 0, assigned = 0.
InitFill(n, m) ==
    [lookup_table |-> [l \in 0..(m - 1) |-> -1],
     next         |-> [c \in 0..(n - 1) |-> 0],
     assigned     |-> 0,
     status       |-> "running"]

\* The probing of one client: the Vec index at which the while loop stops,
\* or m when permutations[cidx][next_val] is read out of range (a panic).
RECURSIVE Probe(_, _, _, _)
Probe(lookup_table, permutation, m, next_val) ==
    IF next_val >= m THEN m
    ELSE IF lookup_table[permutation[next_val]] > 0
         THEN Probe(lookup_table, permutation, m, next_val + 1)
         ELSE next_val

\* One iteration of the for loop body: client cidx probes and claims.
Claim(st, permutations, cidx, m) ==
    LET next_val == Probe(st.lookup_table, permutations[cidx], m, st.next[cidx])
    IN IF next_val >= m
       THEN [st EXCEPT !.next[cidx] = next_val + 1, !.status = "panic"]
       ELSE [lookup_table |->
                 [st.lookup_table EXCEPT ![permutations[cidx][next_val]] = cidx],
             next     |-> [st.next EXCEPT ![cidx] = next_val + 1],
             assigned |-> st.assigned + 1,
             status   |-> IF st.assigned + 1 = m THEN "filled" ELSE "running"]

\* A for loop that starts over at client 0 after every claim.
NextCidxRestart(cidx, n) == 0

\* The client that claims after cidx: the for loop over the clients, which
\* the enclosing loop starts again after the last client.
NextCidx(cidx, n) == (cidx + 1) % n

RECURSIVE FillLoop(_, _, _, _, _)
FillLoop(st, permutations, cidx, n, m) ==
    IF st.status # "running" THEN st
    ELSE FillLoop(Claim(st, permutations, cidx, m), permutations,
                  NextCidx(cidx, n), n, m)

\* The fill of the lookup table for n clients and m shards.  With no client
\* the for loop body never runs, so the enclosing loop never breaks.
Fill(n, m, permutations) ==
    IF n = 0 THEN [InitFill(n, m) EXCEPT !.status = "diverges"]
    ELSE FillLoop(InitFill(n, m), permutations, 0, n, m)

\* What the code after the fill loop reads of a fill: whether the loop was
\* left, and the lookup table.
Filled(fill) == [status |-> fill.status, lookup_table |-> fill.lookup_table]

\* Every outcome of the fill for n clients and m shards, over the shuffles.
FillOutcomesOf(n, m) == {Filled(Fill(n, m, p)) : p \in Shuffles(n, m)}

\* The outcomes, computed once for all sizes within the bounds and held as
\* sequences: those of n clients and m shards are FillOutcomes[n + 1][m + 1].
RECURSIVE OutcomesUpToShards(_, _)
OutcomesUpToShards(n, m) ==
    IF m < 0 THEN <<>>
    ELSE Append(OutcomesUpToShards(n, m - 1), FillOutcomesOf(n, m))

RECURSIVE OutcomesUpToClients(_)
OutcomesUpToClients(n) ==
    IF n < 0 THEN <<>>
    ELSE Append(OutcomesUpToClients(n - 1), OutcomesUpToShards(n, MaxShards))

FillOutcomes == OutcomesUpToClients(MaxClients)

\* The scan for self.config.client_id; client_position stays 0 when the id
\* is not in the list.
ClientPosition(client_id, cl) ==
    IF \E i \in 1..Len(cl) : cl[i] = client_id
    THEN (CHOOSE i \in 1..Len(cl) :
             cl[i] = client_id /\ \A j \in 1..(i - 1) : cl[j] # client_id) - 1
    ELSE 0

\* The owned set with the comparison done on positive values only.
OwnedShardsPositive(lookup_table, client_position, sh) ==
    {sh[l + 1] : l \in {k \in 0..(Len(sh) - 1) :
                          lookup_table[k] > 0
                          /\ lookup_table[k] = client_position}}

\* The owned set read off the lookup table.  `*value as usize` of -1 is
\* usize::MAX, which is no client position, so only values >= 0 can match.
OwnedShards(lookup_table, client_position, sh) ==
    {sh[l + 1] : l \in {k \in 0..(Len(sh) - 1) :
                          lookup_table[k] >= 0
                          /\ lookup_table[k] = client_position}}

NoResult == [status |-> "none", owned |-> {}]

\* What one call of calculate_owned_shards gives for a fill outcome.
Returned(fill, client_id, cl, sh) ==
    IF fill.status = "filled"
    THEN [status |-> "returned",
          owned  |-> OwnedShards(fill.lookup_table,
                                 ClientPosition(client_id, cl), sh)]
    ELSE [status |-> fill.status, owned |-> {}]

\* ---------------------------------------------------------- consumer.rs

REGISTRATION_FREQUENCY_SEC == 5

\* Duration::seconds(REGISTRATION_FREQUENCY_SEC).mul(3)
LivenessWindow == REGISTRATION_FREQUENCY_SEC * 3

\* The tasks Hydra::run spawns into its JoinSet.
RunTasks == 10

NoItem == [present |-> FALSE]

\* An item of the clients table.  An attribute carries its DynamoDB type
\* (S or N) and its value; timestamps are held as seconds.
Item(id, lu_type, lu) ==
    [present    |-> TRUE,
     ID         |-> id,
     LastUpdate |-> [type |-> lu_type, value |-> lu],
     TTL        |-> [type |-> "N", value |-> lu + LivenessWindow]]

\* ClientRecord::from_dynamodb_item: last_update is a DateTime, which
\* deserializes from a string attribute only.
from_dynamodb_item(item) ==
    IF item.LastUpdate.type = "S"
    THEN [ok |-> TRUE, id |-> item.ID, last_update |-> item.LastUpdate.value]
    ELSE [ok |-> FALSE, id |-> item.ID, last_update |-> 0]

\* The staleness test with >= for >.
IsStaleInclusive(t, last_update) == t - last_update >= LivenessWindow

\* The staleness test of get_clients: the record is skipped when it holds.
IsStale(t, last_update) == t - last_update > LivenessWindow

\* The ids of the records get_clients keeps from a scan at time t.
KeptIds(tbl, t) ==
    {c \in ClientIds :
        /\ tbl[c].present
        /\ from_dynamodb_item(tbl[c]).ok
        /\ ~IsStale(t, from_dynamodb_item(tbl[c]).last_update)}

\* get_clients, its scan having succeeded at time t: the kept records,
\* sorted by id.
get_clients(tbl, t) ==
    LET ids == SortedSeq(KeptIds(tbl, t))
    IN [i \in 1..Len(ids) |->
           [id          |-> ids[i],
            last_update |-> from_dynamodb_item(tbl[ids[i]]).last_update]]

\* An UpdateItem that is keyed by one fixed id, whoever the worker is.
register_client_shared(tbl, w, t, ok) ==
    IF ok THEN [tbl EXCEPT ![1] = Item(1, "N", t)] ELSE tbl

\* register_client_self: the UpdateItem sets LastUpdate and TTL, both sent
\* as N attributes, on the item keyed by the worker's own id.
register_client_self(tbl, w, t, ok) ==
    IF ok THEN [tbl EXCEPT ![w] = Item(w, "N", t)] ELSE tbl

\* deregister_client_self: the DeleteItem on the worker's own key.
deregister_client_self(tbl, w, ok) ==
    IF ok THEN [tbl EXCEPT ![w] = NoItem] ELSE tbl

Min(a, b) == IF a < b THEN a ELSE b

\* No fill is being stepped.
FillIdle ==
    /\ shuffled = <<>>
    /\ filling = InitFill(0, 0)
    /\ claimant = 0

\* ------------------------------------------------- churn over a join

\* The ids of the client lists and of a client that joins them: room for a
\* joiner below, between and above the clients of a list.
ChurnIds == 1..(MaxClients + 2)

\* The worker a lookup table makes the owner of the shard at index l: the
\* client at the position the slot holds, or 0 (no worker) for a slot of -1.
OwnerOf(lookup_table, cl, l) ==
    IF lookup_table[l] < 0 THEN 0 ELSE cl[lookup_table[l] + 1]

\* Of the equally likely shuffles of one call with client list cl and m
\* shards, the number that make a the owner of the shard at index l.
OwnerCount(cl, m, l, a) ==
    Cardinality({p \in Shuffles(Len(cl), m) :
                    OwnerOf(Fill(Len(cl), m, p).lookup_table, cl, l) = a})

\* The number of shuffles of one call.
Runs(n, m) == Cardinality(Shuffles(n, m))

\* Of the pairs of a call with cl and a call with cl2, the number that give
\* the shard at index l the same owner: summed over the owners 0 (none) and
\* cl[1..k].
RECURSIVE SameOwner(_, _, _, _, _)
SameOwner(cl, cl2, m, l, k) ==
    IF k < 0 THEN 0
    ELSE LET a == IF k = 0 THEN 0 ELSE cl[k]
         IN OwnerCount(cl, m, l, a) * OwnerCount(cl2, m, l, a)
            + SameOwner(cl, cl2, m, l, k - 1)

\* The shards whose owner differs, summed over the pairs of a call with cl
\* and a call with cl2 and over the shards at indexes 0..l.
RECURSIVE Moved(_, _, _, _)
Moved(cl, cl2, m, l) ==
    IF l < 0 THEN 0
    ELSE Runs(Len(cl), m) * Runs(Len(cl2), m)
         - SameOwner(cl, cl2, m, l, Len(cl))
         + Moved(cl, cl2, m, l - 1)

\* The client list with one more client, as get_clients sorts it.
Joined(cl, c) == SortedSeq({cl[i] : i \in 1..Len(cl)} \cup {c})

NoChurn == [n |-> 0, runs |-> 0, moved |-> 0]

ChurnIdle ==
    /\ joiner = 0
    /\ churn = NoChurn

\* ------------------------------------------ Hydra::new and Hydra::init

\* A string field of the Config: empty, or some name.
Names == {"", "name"}

\* The Configs a host may hand over, in the fields the coordinator reads.
\* client_name is the worker id that register_client_self and
\* deregister_client_self read.
Configs ==
    [buffer_size            : 0..MaxBuffer,
     kinesis_stream_name    : Names,
     checkpoints_table_name : Names,
     clients_table_name     : Names,
     client_name            : Names]

\* Hydra::new: the two table names are checked; channel(buffer_size) panics
\* on a capacity of 0.
Hydra_new(c) ==
    IF c.checkpoints_table_name = "" THEN "Err"
    ELSE IF c.clients_table_name = "" THEN "Err"
    ELSE IF c.buffer_size = 0 THEN "panic"
    ELSE "Ok"

\* What a DescribeTable request can meet: a failed request, a response
\* without table, a table without status, or a table status.
TableOutcomes ==
    {"rpc_error", "no_table", "no_status", "CREATING", "UPDATING", "ACTIVE"}

StreamArns == {"", "arn:a", "arn:b"}

\* What a DescribeStream request can meet: a failed request, a response
\* without description, or a stream status with the stream's ARN (which is
\* read for the statuses Active and Updating only).
StreamOutcomes ==
    {[status |-> e, arn |-> ""] :
        e \in {"rpc_error", "no_description", "CREATING", "DELETING"}}
    \cup [status : {"ACTIVE", "UPDATING"}, arn : StreamArns]

\* A table status test that accepts Active only.
TableStatusReadyActiveOnly(table_status) == table_status = "ACTIVE"

\* The table probe's status test: Updating or Active.
TableStatusReady(table_status) == table_status \in {"UPDATING", "ACTIVE"}

\* The stream probe's status test: Updating or Active.
StreamStatusReady(stream_status) == stream_status \in {"UPDATING", "ACTIVE"}

\* ddb_table_ready: Err, Ok(false) or Ok(true).
ddb_table_ready(outcome) ==
    IF outcome \in {"rpc_error", "no_table", "no_status"}
    THEN [ok |-> FALSE, ready |-> FALSE]
    ELSE [ok |-> TRUE, ready |-> TableStatusReady(outcome)]

\* kinesis_stream_ready: Err, or Ok(the stream's ARN).
kinesis_stream_ready(outcome) ==
    IF outcome.status \in {"rpc_error", "no_description"}
    THEN [ok |-> FALSE, arn |-> ""]
    ELSE IF ~StreamStatusReady(outcome.status)
         THEN [ok |-> FALSE, arn |-> ""]
         ELSE [ok |-> TRUE, arn |-> outcome.arn]

\* Hydra::init on the outcomes p of its probes, the handle being arn: its
\* result and the handle it leaves.
Hydra_init(p, arn) ==
    LET checkpoints_table_ready == ddb_table_ready(p.checkpoints)
        clients_table_ready     == ddb_table_ready(p.clients)
        stream                  == kinesis_stream_ready(p.stream)
    IN IF ~checkpoints_table_ready.ok THEN [result |-> "Err", arn |-> arn]
       ELSE IF ~clients_table_ready.ok THEN [result |-> "Err", arn |-> arn]
       ELSE IF ~stream.ok THEN [result |-> "Err", arn |-> arn]
       ELSE IF ~checkpoints_table_ready.ready THEN [result |-> "Err", arn |-> arn]
       ELSE IF ~clients_table_ready.ready THEN [result |-> "Err", arn |-> arn]
       ELSE IF stream.arn = "" THEN [result |-> "Err", arn |-> arn]
       ELSE [result |-> "Ok", arn |-> stream.arn]

NoConfig ==
    [buffer_size |-> 0, kinesis_stream_name |-> "",
     checkpoints_table_name |-> "", clients_table_name |-> "",
     client_name |-> ""]

NoProbes ==
    [checkpoints |-> "none", clients |-> "none",
     stream |-> [status |-> "none", arn |-> ""]]

StartupIdle ==
    /\ config = NoConfig
    /\ new_result = "none"
    /\ probes = NoProbes
    /\ init_result = "none"
    /\ kinesis_stream_arn = ""

SharderIdle ==
    /\ clients = <<>>
    /\ shards = <<>>
    /\ result = [c \in SharderIds |-> NoResult]
    /\ FillIdle

RegistryIdle ==
    /\ table = [c \in ClientIds |-> NoItem]
    /\ reg_pc = [w \in Workers |-> "start"]
    /\ cancelled = [w \in Workers |-> FALSE]
    /\ next_tick = [w \in Workers |-> 0]
    /\ dereg_calls = [w \in Workers |-> 0]
    /\ dereg_ok = [w \in Workers |-> FALSE]
    /\ loop_parity = [w \in Workers |-> 0]

RunIdle ==
    /\ run_pc = [w \in Workers |-> "idle"]
    /\ joined = [w \in Workers |-> 0]

NoScan == [status |-> "none", at |-> 0, records |-> <<>>]

Init ==
    /\ clients \in ClientLists
    /\ shards \in ShardLists
    /\ result = [c \in SharderIds |-> NoResult]
    /\ FillIdle
    /\ now = 0
    /\ RegistryIdle
    /\ RunIdle
    /\ live = NoScan
    /\ StartupIdle
    /\ ChurnIdle

\* The sharder whose config.client_id is c runs calculate_owned_shards.
calculate_owned_shards(c) ==
    /\ \E r \in {Returned(fill, c, clients, shards) :
                   fill \in FillOutcomes[Len(clients) + 1][Len(shards) + 1]} :
          result' = [result EXCEPT ![c] = r]
    /\ UNCHANGED <<clients, shards, fill_vars, now, registry_vars, run_vars, live, startup_vars, churn_vars>>

Next == \E c \in SharderIds : calculate_owned_shards(c)

Spec == Init /\ [][Next]_vars

\* ------------------------------------- the fill loop, one claim at a time

\* calculate_owned_shards has built the lookup table, the shuffled
\* permutations and next, and is about to enter the loop.
FillInit ==
    /\ clients \in ClientLists
    /\ shards \in ShardLists
    /\ result = [c \in SharderIds |-> NoResult]
    /\ shuffled \in Shuffles(Len(clients), Len(shards))
    /\ filling = InitFill(Len(clients), Len(shards))
    /\ claimant = 0
    /\ now = 0
    /\ RegistryIdle
    /\ RunIdle
    /\ live = NoScan
    /\ StartupIdle
    /\ ChurnIdle

\* One iteration of the for loop body.  With no client there is none, and
\* the enclosing loop spins without a step that changes anything.
FillClaim ==
    /\ Len(clients) >= 1
    /\ filling.status = "running"
    /\ filling' = Claim(filling, shuffled, claimant, Len(shards))
    /\ claimant' = NextCidx(claimant, Len(clients))
    /\ UNCHANGED <<clients, shards, result, shuffled, now, registry_vars,
                   run_vars, live, startup_vars, churn_vars>>

FillNext == FillClaim

FillSpec == FillInit /\ [][FillNext]_vars

\* ------------------------------------------- the registration task

\* maintain_client_registration_self up to its loop: the initial
\* registration, then the interval, whose first tick is due at once.
StartRegistration(w) ==
    /\ reg_pc[w] = "start"
    /\ \E ok \in BOOLEAN :
          /\ table' = register_client_self(table, w, now, ok)
          /\ reg_pc' = [reg_pc EXCEPT ![w] = IF ok THEN "loop" ELSE "returned_err"]
    /\ next_tick' = [next_tick EXCEPT ![w] = now]
    /\ UNCHANGED <<sharder_vars, now, cancelled, dereg_calls, dereg_ok,
                   loop_parity, run_vars, live, startup_vars, churn_vars>>

\* The select! branch on cancellation_token.cancelled().
SelectCancelled(w) ==
    /\ reg_pc[w] = "loop"
    /\ cancelled[w]
    /\ \E ok \in BOOLEAN :
          /\ table' = deregister_client_self(table, w, ok)
          /\ dereg_ok' = [dereg_ok EXCEPT ![w] = @ \/ ok]
          /\ reg_pc' = [reg_pc EXCEPT ![w] = IF ok THEN "loop" ELSE "returned_err"]
    /\ dereg_calls' = [dereg_calls EXCEPT ![w] = Min(@ + 1, MaxDeregCalls)]
    /\ loop_parity' = [loop_parity EXCEPT ![w] = 1 - @]
    /\ UNCHANGED <<sharder_vars, now, cancelled, next_tick, run_vars, live, startup_vars, churn_vars>>

\* A tick branch that returns the error of a failed registration.
SelectTickFatal(w) ==
    /\ reg_pc[w] = "loop"
    /\ now >= next_tick[w]
    /\ \E ok \in BOOLEAN :
          /\ table' = register_client_self(table, w, now, ok)
          /\ reg_pc' = [reg_pc EXCEPT ![w] = IF ok THEN "loop" ELSE "returned_err"]
    /\ next_tick' = [next_tick EXCEPT ![w] = @ + REGISTRATION_FREQUENCY_SEC]
    /\ loop_parity' = [loop_parity EXCEPT ![w] = 1 - @]
    /\ UNCHANGED <<sharder_vars, now, cancelled, dereg_calls,
                   dereg_ok, run_vars, live, startup_vars, churn_vars>>

\* The select! branch on registration_timer.tick().
SelectTick(w) ==
    /\ reg_pc[w] = "loop"
    /\ now >= next_tick[w]
    /\ \E ok \in BOOLEAN :
          table' = register_client_self(table, w, now, ok)
    /\ next_tick' = [next_tick EXCEPT ![w] = @ + REGISTRATION_FREQUENCY_SEC]
    /\ loop_parity' = [loop_parity EXCEPT ![w] = 1 - @]
    /\ UNCHANGED <<sharder_vars, now, reg_pc, cancelled, dereg_calls,
                   dereg_ok, run_vars, live, startup_vars, churn_vars>>

\* The holder of the worker's token cancels it.
Cancel(w) ==
    /\ ~cancelled[w]
    /\ cancelled' = [cancelled EXCEPT ![w] = TRUE]
    /\ UNCHANGED <<sharder_vars, now, table, reg_pc, next_tick, dereg_calls,
                   dereg_ok, loop_parity, run_vars, live, startup_vars, churn_vars>>

\* A second passes.
AdvanceTime ==
    /\ now < MaxTime
    /\ now' = now + 1
    /\ UNCHANGED <<sharder_vars, registry_vars, run_vars, live, startup_vars, churn_vars>>

RegInit ==
    /\ SharderIdle
    /\ now = 0
    /\ RegistryIdle
    /\ RunIdle
    /\ live = NoScan
    /\ StartupIdle
    /\ ChurnIdle

RegNext ==
    \/ \E w \in Workers : StartRegistration(w)
    \/ \E w \in Workers : SelectCancelled(w)
    \/ \E w \in Workers : SelectTick(w)
    \/ \E w \in Workers : Cancel(w)
    \/ AdvanceTime

RegSpec == RegInit /\ [][RegNext]_vars

\* The runtime polls a task that can proceed, and select! runs a branch
\* that is ready.
FairRegSpec ==
    /\ RegSpec
    /\ \A w \in Workers :
          /\ WF_vars(StartRegistration(w))
          /\ WF_vars(SelectCancelled(w))
          /\ WF_vars(SelectTick(w))

\* ------------------------------------------------------------ Hydra::run

\* The for loop that spawns the tasks into the JoinSet.
RunSpawn(w) ==
    /\ run_pc[w] = "idle"
    /\ run_pc' = [run_pc EXCEPT ![w] = "joining"]
    /\ joined' = [joined EXCEPT ![w] = 0]
    /\ UNCHANGED <<sharder_vars, now, registry_vars, live, startup_vars, churn_vars>>

\* join_next yields a finished task; a task that returns its number gives Ok.
RunJoinNext(w) ==
    /\ run_pc[w] = "joining"
    /\ joined[w] < RunTasks
    /\ joined' = [joined EXCEPT ![w] = @ + 1]
    /\ UNCHANGED <<sharder_vars, now, registry_vars, run_pc, live, startup_vars, churn_vars>>

\* join_next yields None: run returns Ok.
RunReturn(w) ==
    /\ run_pc[w] = "joining"
    /\ joined[w] = RunTasks
    /\ run_pc' = [run_pc EXCEPT ![w] = "returned_ok"]
    /\ UNCHANGED <<sharder_vars, now, registry_vars, joined, live, startup_vars, churn_vars>>

RunNext ==
    \/ RegNext
    \/ \E w \in Workers : RunSpawn(w)
    \/ \E w \in Workers : RunJoinNext(w)
    \/ \E w \in Workers : RunReturn(w)

RunSpec == RegInit /\ [][RunNext]_vars

\* ------------------------------------------------------------ get_clients

\* The items other writers may have left under a key: none, or one whose
\* LastUpdate is a string or a number attribute.
RowChoices == {<<"none", 0>>} \cup ({"S", "N"} \X (0..MaxSkew))

TableOf(ch) ==
    [c \in ClientIds |->
        IF ch[c][1] = "none" THEN NoItem ELSE Item(c, ch[c][1], ch[c][2])]

ScanTables == {TableOf(ch) : ch \in [ClientIds -> RowChoices]}

\* A call of get_clients; the scan request may fail.
GetClients ==
    /\ \E ok \in BOOLEAN :
          live' = IF ok
                  THEN [status |-> "ok", at |-> now,
                        records |-> get_clients(table, now)]
                  ELSE [status |-> "err", at |-> now, records |-> <<>>]
    /\ UNCHANGED <<sharder_vars, now, registry_vars, run_vars, startup_vars, churn_vars>>

\* A second passes while no heartbeat is written.
ElapseSecond ==
    /\ now < MaxScanTime
    /\ now' = now + 1
    /\ UNCHANGED <<sharder_vars, registry_vars, run_vars, live, startup_vars, churn_vars>>

ScanInit ==
    /\ SharderIdle
    /\ now = 0
    /\ table \in ScanTables
    /\ reg_pc = [w \in Workers |-> "start"]
    /\ cancelled = [w \in Workers |-> FALSE]
    /\ next_tick = [w \in Workers |-> 0]
    /\ dereg_calls = [w \in Workers |-> 0]
    /\ dereg_ok = [w \in Workers |-> FALSE]
    /\ loop_parity = [w \in Workers |-> 0]
    /\ RunIdle
    /\ live = NoScan
    /\ StartupIdle
    /\ ChurnIdle

ScanNext == GetClients \/ ElapseSecond

ScanSpec == ScanInit /\ [][ScanNext]_vars

\* ------------------------------------------------------------ a fleet

\* A fleet on the one clients table: the workers with the lowest and the
\* highest client id; the ids between them are rows of peers.
Fleet == {1, MaxClients}

\* A second passes for the fleet.
FleetSecond ==
    /\ now < MaxFleetTime
    /\ now' = now + 1
    /\ UNCHANGED <<sharder_vars, registry_vars, run_vars, live, startup_vars,
                   churn_vars>>

FleetInit ==
    /\ SharderIdle
    /\ now = 0
    /\ table = [c \in ClientIds |-> NoItem]
    /\ reg_pc = [w \in Fleet |-> "start"]
    /\ cancelled = [w \in Fleet |-> FALSE]
    /\ next_tick = [w \in Fleet |-> 0]
    /\ dereg_calls = [w \in Fleet |-> 0]
    /\ dereg_ok = [w \in Fleet |-> FALSE]
    /\ loop_parity = [w \in Fleet |-> 0]
    /\ RunIdle
    /\ live = NoScan
    /\ StartupIdle
    /\ ChurnIdle

FleetNext ==
    \/ \E w \in Fleet : StartRegistration(w)
    \/ \E w \in Fleet : SelectCancelled(w)
    \/ \E w \in Fleet : SelectTick(w)
    \/ \E w \in Fleet : Cancel(w)
    \/ FleetSecond

FleetSpec == FleetInit /\ [][FleetNext]_vars

\* --------------------------------------------- heartbeats and the scan

\* Workers keep their registration up while peers scan the clients table.
BeatNext ==
    \/ \E w \in Workers : StartRegistration(w)
    \/ \E w \in Workers : SelectTick(w)
    \/ ElapseSecond
    \/ GetClients

BeatSpec == RegInit /\ [][BeatNext]_vars

\* ------------------------------------------------------------ startup

\* The host constructs the Hydra from its Config.
New ==
    /\ new_result = "none"
    /\ new_result' = Hydra_new(config)
    /\ UNCHANGED <<sharder_vars, now, registry_vars, run_vars, live, config,
                   probes, init_result, kinesis_stream_arn, churn_vars>>

\* The host calls init on the constructed Hydra (again, if it likes); the
\* three probes meet whatever the services answer.
InitCall ==
    /\ new_result = "Ok"
    /\ \E p \in [checkpoints : TableOutcomes, clients : TableOutcomes,
                 stream : StreamOutcomes] :
          /\ probes' = p
          /\ init_result' = Hydra_init(p, kinesis_stream_arn).result
          /\ kinesis_stream_arn' = Hydra_init(p, kinesis_stream_arn).arn
    /\ UNCHANGED <<sharder_vars, now, registry_vars, run_vars, live, config,
                   new_result, churn_vars>>

StartupInit ==
    /\ SharderIdle
    /\ now = 0
    /\ RegistryIdle
    /\ RunIdle
    /\ live = NoScan
    /\ config \in Configs
    /\ new_result = "none"
    /\ probes = NoProbes
    /\ init_result = "none"
    /\ kinesis_stream_arn = ""
    /\ ChurnIdle

StartupNext == New \/ InitCall

StartupSpec == StartupInit /\ [][StartupNext]_vars

\* --------------------------------------------------------------- join

\* The joiner registers: the client list becomes the list with the joiner,
\* and the shards are assigned by one call before and one call after.
Join ==
    /\ churn = NoChurn
    /\ clients' = Joined(clients, joiner)
    /\ churn' = [n     |-> Len(clients),
                 runs  |-> Runs(Len(clients), Len(shards))
                           * Runs(Len(clients) + 1, Len(shards)),
                 moved |-> Moved(clients, Joined(clients, joiner),
                                 Len(shards), Len(shards) - 1)]
    /\ UNCHANGED <<shards, result, fill_vars, now, registry_vars, run_vars,
                   live, startup_vars, joiner>>

ChurnInit ==
    /\ clients \in {SortedSeq(S) : S \in {T \in SUBSET ChurnIds :
                                          Cardinality(T) \in 1..MaxClients}}
    /\ shards \in {sh \in ShardLists : Len(sh) >= 1}
    /\ result = [c \in SharderIds |-> NoResult]
    /\ FillIdle
    /\ now = 0
    /\ RegistryIdle
    /\ RunIdle
    /\ live = NoScan
    /\ StartupIdle
    /\ joiner \in ChurnIds \ {clients[i] : i \in 1..Len(clients)}
    /\ churn = NoChurn

ChurnNext == Join

ChurnSpec == ChurnInit /\ [][ChurnNext]_vars

\* ------------------------------------------------- properties of the sharder

InList(c) == \E i \in 1..Len(clients) : clients[i] = c

ShardSet == {shards[i] : i \in 1..Len(shards)}

Ceil(m, n) == (m + n - 1) \div n

\* C1: for a non-empty sorted list of distinct clients and a non-empty shard
\* list, once every client of the list has run calculate_owned_shards on
\* these inputs, the owned sets are pairwise disjoint and their union is the
\* shard set.
C1_Partition ==
    (/\ Len(clients) >= 1
     /\ Len(shards) >= 1
     /\ \A c \in SharderIds : InList(c) => result[c].status = "returned")
    => /\ \A c, d \in SharderIds :
             (InList(c) /\ InList(d) /\ c # d)
             => result[c].owned \cap result[d].owned = {}
       /\ UNION {result[c].owned : c \in {d \in SharderIds : InList(d)}}
             = ShardSet

\* C2: a second execution of calculate_owned_shards by the same client_id on
\* the same client list and shard list returns the same owned set as the
\* execution before it.
C2_Determinism ==
    [][\A c \in SharderIds :
          (result[c].status = "returned" /\ result'[c].status = "returned")
          => result'[c].owned = result[c].owned]_vars

\* C8: when the sharder's client_id is not in the (non-empty) client list,
\* the owned set it returns is empty.
C8_AbsentOwnsNothing ==
    \A c \in SharderIds :
        (Len(clients) >= 1 /\ ~InList(c) /\ result[c].status = "returned")
        => result[c].owned = {}

\* C9: called with an empty client list or an empty shard list,
\* calculate_owned_shards returns, and returns the empty owned set.
C9_EmptyInputs ==
    \A c \in SharderIds :
        ((Len(clients) = 0 \/ Len(shards) = 0) /\ result[c] # NoResult)
        => (result[c].status = "returned" /\ result[c].owned = {})

\* C10: for N >= 1 distinct clients and M >= 1 shards, the owned set returned
\* to any client of the list has at most ceil(M/N) shards.
C10_LoadBound ==
    \A c \in SharderIds :
        (/\ Len(clients) >= 1
         /\ Len(shards) >= 1
         /\ InList(c)
         /\ result[c].status = "returned")
        => Cardinality(result[c].owned) <= Ceil(Len(shards), Len(clients))

\* A client of a two-client list was returned ceil(3/2) = 2 of three shards.
C10_Witness ==
    /\ Len(clients) = 2
    /\ Len(shards) = 3
    /\ \E c \in SharderIds :
          /\ InList(c)
          /\ result[c].status = "returned"
          /\ Cardinality(result[c].owned) = 2

\* C11: for N >= 1 clients and M >= 1 shards, every client's owned set read
\* off the one filled lookup table has floor(M/N) or ceil(M/N) shards.
C11_EvenDistribution ==
    (Len(clients) >= 1 /\ Len(shards) >= 1 /\ filling.status = "filled")
    => \A pos \in 0..(Len(clients) - 1) :
          Cardinality(OwnedShards(filling.lookup_table, pos, shards))
              \in {Len(shards) \div Len(clients),
                   Ceil(Len(shards), Len(clients))}

\* C15: with a client list of exactly one client, whose id is the sharder's
\* client_id, calculate_owned_shards returns the whole set of a non-empty
\* shard list.
C15_SingleClientOwnsAll ==
    \A c \in SharderIds :
        (/\ clients = <<c>>
         /\ Len(shards) >= 1
         /\ result[c] # NoResult)
        => (result[c].status = "returned" /\ result[c].owned = ShardSet)

\* The only client of the list was returned all of three shards.
C15_Witness ==
    \E c \in SharderIds :
        /\ clients = <<c>>
        /\ Len(shards) = 3
        /\ result[c].status = "returned"
        /\ result[c].owned = {1, 2, 3}

\* C17: a slot of the lookup table that holds a client index is not written
\* with a different client index by a later claim of the same filling.
C17_ClaimedSlotKept ==
    [][\A l \in 0..(Len(shards) - 1) :
          filling.lookup_table[l] >= 0
          => filling'.lookup_table[l] = filling.lookup_table[l]]_vars

\* C20: for N >= 1 clients and M >= 1 shards and every shuffle, the fill loop
\* is left after exactly M claims and no probe reads permutations[c][next_val]
\* with next_val >= M.
C20_FillTerminates ==
    (Len(clients) >= 1 /\ Len(shards) >= 1)
    => /\ filling.status # "panic"
       /\ filling.assigned <= Len(shards)
       /\ (filling.status = "filled" <=> filling.assigned = Len(shards))
       /\ \A c \in 0..(Len(clients) - 1) : filling.next[c] <= Len(shards)

\* A fill of three shards by two clients is done, and client 0 has probed
\* past a taken slot: two claims have moved its next to 3.
C20_Witness ==
    /\ Len(clients) = 2
    /\ Len(shards) = 3
    /\ filling.status = "filled"
    /\ filling.next[0] = 3

\* C16: when a client joins N clients and the M shards stay, the expected
\* number of shards whose owner changes, that is the mean of the changes
\* over the equally likely shuffles of the two calls (moved / runs), is at
\* most M/N + M/(N+1) = M(2N+1) / (N(N+1)).
C16_ExpectedChurn ==
    churn # NoChurn
    => churn.moved * churn.n * (churn.n + 1)
       <= Len(shards) * (2 * churn.n + 1) * churn.runs

\* ------------------------------------------- properties of the registry

\* C3: once the token is cancelled, deregister_client_self is called exactly
\* once; stated here is the part a finite run can break: never twice or more.
C3_DeregisterOnce ==
    \A w \in Workers : cancelled[w] => dereg_calls[w] <= 1

\* C4: once the token is cancelled the registration task eventually returns,
\* whether its deregistration succeeds or fails.
C4_TaskReturns ==
    \A w \in Workers : cancelled[w] ~> (reg_pc[w] = "returned_err")

\* C5: after cancellation, run has not returned unless the worker's
\* registration task has issued its deregistration.
C5_LifoTeardown ==
    \A w \in Workers :
        (cancelled[w] /\ run_pc[w] = "returned_ok") => dereg_calls[w] >= 1

\* C6: after cancellation and a successful deregister_client_self the
\* worker's item stays absent from the clients table.
C6_StaysDeregistered ==
    \A w \in Workers :
        (cancelled[w] /\ dereg_ok[w]) => ~table[w].present

InRecords(c, records) == \E i \in 1..Len(records) : records[i].id = c

\* C7: a successful get_clients returns the record of an id iff the id has a
\* parseable item whose last_update is at most 3 * 5 = 15 seconds before the
\* time of the scan.
C7_Freshness ==
    live.status = "ok"
    => \A c \in ClientIds :
          InRecords(c, live.records)
          <=> (/\ table[c].present
               /\ from_dynamodb_item(table[c]).ok
               /\ live.at - from_dynamodb_item(table[c]).last_update <= 15)

\* A scan that kept a record exactly 15 seconds old and dropped a parseable
\* one 16 seconds old.
C7_Witness ==
    /\ live.status = "ok"
    /\ \E c, d \in ClientIds :
          /\ table[c].present /\ table[c].LastUpdate.type = "S"
          /\ live.at - table[c].LastUpdate.value = 15
          /\ InRecords(c, live.records)
          /\ table[d].present /\ table[d].LastUpdate.type = "S"
          /\ live.at - table[d].LastUpdate.value = 16
          /\ ~InRecords(d, live.records)

\* C14: a failed register_client_self ends the maintenance task iff it is the
\* initial one.  The step out of "start" either registers and enters the
\* loop, or fails and returns an error with the table untouched, no
\* deregister call and no loop iteration; a step of the tick branch (the
\* one that moves the timer), whether its registration succeeds or fails,
\* stays in the loop with the next registration one period later; and the
\* loop is left only by a step that is not a tick.
C14_RegisterFailure ==
    [][\A w \in Workers :
          /\ (reg_pc[w] = "start" /\ reg_pc'[w] = "loop")
             => table'[w] = Item(w, "N", now)
          /\ (reg_pc[w] = "start" /\ reg_pc'[w] # "loop" /\ reg_pc'[w] # "start")
             => /\ reg_pc'[w] = "returned_err"
                /\ table' = table
                /\ dereg_calls'[w] = 0
                /\ loop_parity'[w] = loop_parity[w]
          /\ (reg_pc[w] = "loop" /\ next_tick'[w] # next_tick[w])
             => /\ reg_pc'[w] = "loop"
                /\ next_tick'[w] = next_tick[w] + REGISTRATION_FREQUENCY_SEC
                /\ dereg_calls'[w] = dereg_calls[w]
                /\ table'[w] \in {table[w], Item(w, "N", now)}]_vars

\* A periodic registration has failed (the row is older than the last tick)
\* and the task is still in its loop, its next registration scheduled.
C14_Witness ==
    \E w \in Workers :
        /\ reg_pc[w] = "loop"
        /\ ~cancelled[w]
        /\ table[w] # NoItem
        /\ table[w].LastUpdate.value < next_tick[w] - REGISTRATION_FREQUENCY_SEC
        /\ dereg_calls[w] = 0

\* C18: a worker whose last successful registration is at most 3 * H = 15
\* seconds old, which is what missing two heartbeats in a row leaves, is in
\* the result of every successful get_clients of a peer.
C18_TwoMissedHeartbeats ==
    [][(live' # live /\ live'.status = "ok")
       => \A w \in Workers :
             (/\ reg_pc[w] = "loop"
              /\ table[w].present
              /\ now - table[w].LastUpdate.value <= 3 * REGISTRATION_FREQUENCY_SEC)
             => InRecords(w, live'.records)]_vars

\* C19: a step of one worker's maintenance task (its initial registration,
\* a tick's registration or a deregistration) leaves the row of every other
\* id as it was, and a row changes only in a step of the worker it is keyed
\* by.
C19_OwnerOnlyWrites ==
    [][\A w \in Fleet :
          /\ (reg_pc'[w] # reg_pc[w] \/ loop_parity'[w] # loop_parity[w])
             => \A c \in ClientIds \ {w} : table'[c] = table[c]
          /\ table'[w] # table[w]
             => (reg_pc'[w] # reg_pc[w] \/ loop_parity'[w] # loop_parity[w])]_vars

\* Two workers hold rows written at different times: one registered at 0
\* and still has that row after the other re-registered on a tick at 1.
C19_Witness ==
    \E w, v \in Fleet :
        /\ w # v
        /\ reg_pc[w] = "loop" /\ reg_pc[v] = "loop"
        /\ table[w].present /\ table[v].present
        /\ table[w].LastUpdate.value = 0
        /\ table[v].LastUpdate.value = 1
        /\ loop_parity[v] = 1

\* ------------------------------------------- properties of the startup

\* C12: Hydra::new gives an error whenever the checkpoints table name, the
\* clients table name, the stream name or the worker id is empty or
\* buffer_size is 0, and succeeds only when none of the five is the case.
C12_StartupValidation ==
    new_result # "none"
    => LET valid == /\ config.checkpoints_table_name # ""
                    /\ config.clients_table_name # ""
                    /\ config.kinesis_stream_name # ""
                    /\ config.buffer_size > 0
                    /\ config.client_name # ""
       IN IF valid THEN new_result = "Ok" ELSE new_result = "Err"

AllProbesReady(p) ==
    /\ p.checkpoints \in {"ACTIVE", "UPDATING"}
    /\ p.clients \in {"ACTIVE", "UPDATING"}
    /\ p.stream.status \in {"ACTIVE", "UPDATING"}

\* C13 as stated: init returns Ok iff the two tables and the stream each have
\* status ACTIVE or UPDATING.
C13_InitIffProbesReady ==
    init_result # "none"
    => (init_result = "Ok" <=> AllProbesReady(probes))

\* C13 as amended: init returns Ok iff the two tables and the stream each
\* have status ACTIVE or UPDATING and the stream's ARN is not empty; the
\* handle becomes that ARN when init returns Ok and is unchanged otherwise.
C13_InitGating ==
    [][init_result' # "none"
       => /\ init_result' = "Ok"
             <=> (AllProbesReady(probes') /\ probes'.stream.arn # "")
          /\ init_result' = "Ok" => kinesis_stream_arn' = probes'.stream.arn
          /\ init_result' # "Ok" => kinesis_stream_arn' = kinesis_stream_arn]_vars

\* An init that met an UPDATING table returned Ok and captured the ARN.
C13_Witness ==
    /\ init_result = "Ok"
    /\ probes.checkpoints = "UPDATING"
    /\ probes.clients = "ACTIVE"
    /\ kinesis_stream_arn = probes.stream.arn
    /\ kinesis_stream_arn # ""

====
